---- MODULE Spec2Model ----
(***************************************************************************)
(* Report (laudo) lifecycle of LaudoFy-Backend: criarLaudo, refazerLaudo,  *)
(* assinarLaudoAutomaticamente, assinarLaudoManual, uploadLaudoAssinado,   *)
(* invalidarLaudo, the shared gerarPdfLaudoAssinado pipeline and the       *)
(* certificate service (registrarCertificado, removerCertificado).         *)
(* Every request is a process that advances one await at a time; a save    *)
(* writes only the paths the handler modified, as a mongoose save does.    *)
(***************************************************************************)
EXTENDS Integers, Sequences, FiniteSets, TLC

\* ------------------------------------------------------------------ bounds
\* Requests served in one behaviour.
MaxReq == 3
\* Longest stored certificate password.
MaxSenha == 3

\* ------------------------------------------------------------------ universes
Procs == {"p1", "p2"}
Medicos == {"m1", "m2"}
\* The physician who writes reports (criarLaudo, refazerLaudo); the other
\* one is a colleague who may call every other endpoint.
Criadores == {"m1"}
Exames == {"e1"}
ArquivosP12 == {"fA", "fB"}
MimeTypes == {"application/pdf", "image/png"}

Nulo == [nulo |-> TRUE]

StatusPendentes == {"Laudo pronto para assinatura", "Laudo realizado"}

\* ------------------------------------------------------------------ passwords
\* A password is a tuple of one-character strings.
LowerChar(c) == IF c = "A" THEN "a" ELSE IF c = "B" THEN "b" ELSE c
UpperChar(c) == IF c = "a" THEN "A" ELSE IF c = "b" THEN "B" ELSE c

ToLowerCase(s) == [i \in 1..Len(s) |-> LowerChar(s[i])]
ToUpperCase(s) == [i \in 1..Len(s) |-> UpperChar(s[i])]

RECURSIVE TrimStart(_)
TrimStart(s) == IF s # <<>> /\ Head(s) = " " THEN TrimStart(Tail(s)) ELSE s

RECURSIVE TrimEnd(_)
TrimEnd(s) ==
  IF s # <<>> /\ s[Len(s)] = " " THEN TrimEnd(SubSeq(s, 1, Len(s) - 1)) ELSE s

Trim(s) == TrimEnd(TrimStart(s))

\* [senha, trim, lower, upper, ''].filter(Boolean): the empty string is falsy.
SenhasParaTestar(senhaOriginal) ==
  SelectSeq(<<senhaOriginal, Trim(senhaOriginal), ToLowerCase(senhaOriginal),
              ToUpperCase(senhaOriginal), <<>> >>,
            LAMBDA s : s # <<>>)

\* The PKCS#12 password of each certificate file.
SenhaP12(f) ==
  IF f = "fA" THEN <<"A", "b">> ELSE IF f = "fV" THEN <<>> ELSE <<"a", "b">>

\* forge.pkcs12.pkcs12FromAsn1 / P12Signer accept exactly the file's password.
AbreP12(f, senha) == senha = SenhaP12(f)

\* Index of the first variant that opens the file and signs, 0 when none does.
SenhaCorreta(f, senhaOriginal) ==
  LET vs == SenhasParaTestar(senhaOriginal)
      ok == {i \in 1..Len(vs) : AbreP12(f, vs[i])}
  IN IF ok = {} THEN 0 ELSE CHOOSE i \in ok : \A j \in ok : i <= j

\* What senhaCertificado holds in a record that predates the senhaHash
\* migration: a string that is not the file's password.
SenhasLegadas == {<<"h", "$">>}

\* ------------------------------------------------------------------ state
VARIABLES
  laudos,      \* Laudo collection: sequence of documents, _id = index
  exames,      \* Exame collection: [Exames -> document]
  certs,       \* CertificadoDigital collection: sequence of documents
  vencidos,    \* certificate files whose notAfter is in the past
  arquivos,    \* certificate ids whose encrypted file is on disk
  s3,          \* objects in the primary store
  uploadcare,  \* objects in the secondary store
  audit,       \* AuditLog collection
  proc,        \* in-flight requests
  nreq,        \* requests received so far
  slots        \* requests the server handles at a time

vars == <<laudos, exames, certs, vencidos, arquivos, s3, uploadcare, audit, proc,
          nreq, slots>>

LaudoIds == 1..Len(laudos)
CertIds == 1..Len(certs)

SemResultado ==
  [success |-> FALSE, fileUrl |-> Nulo, s3Key |-> Nulo, assinadoCom |-> "-",
   certificadoId |-> 0, conteudo |-> "-", assinou |-> "-", falhas |-> 0]

Ocioso ==
  [pc |-> "idle", op |-> "-", usuario |-> "-", lid |-> 0, orig |-> 0,
   exame |-> "-", flag |-> FALSE, originalKey |-> Nulo, res |-> SemResultado,
   arquivo |-> "-", novoStatus |-> "-", resp |-> "-"]

\* Storage objects. A key carries the report id, the kind discriminator and
\* what the bytes are; a URL names the store and the object.
S3Key(lid, tipo, conteudo) == [lid |-> lid, tipo |-> tipo, conteudo |-> conteudo]
S3Url(key) == [store |-> "s3", lid |-> key.lid, conteudo |-> key.conteudo]
UploadcareUrl(lid, conteudo) == [store |-> "uploadcare", lid |-> lid, conteudo |-> conteudo]

\* ------------------------------------------------------------------ documents
\* A new Laudo document with the schema defaults.
NovoLaudo(e, m, st, hist) ==
  [exame |-> e, medicoResponsavelId |-> m, status |-> st, valido |-> TRUE,
   historico |-> hist, versao |-> 1,
   laudoOriginalKey |-> Nulo, laudoAssinadoKey |-> Nulo, laudoAssinado |-> Nulo,
   arquivoPath |-> Nulo, assinadoDigitalmente |-> FALSE, assinadoCom |-> "-",
   certificadoId |-> 0, dataAssinatura |-> FALSE]

EntradaHistorico(m, acao, detalhes, versao) ==
  [usuario |-> m, acao |-> acao, detalhes |-> detalhes, versao |-> versao]

\* CertificadoDigital.findOne({medicoId, ativo: true, dataVencimento: {$gt: now}})
CertificadosAtivos(m) ==
  {c \in CertIds : certs[c].medicoId = m /\ certs[c].ativo
                   /\ certs[c].arquivo \notin vencidos}

TemCertificadoAtivo_nunca(m) == FALSE

TemCertificadoAtivo_semVencimento(m) ==
  \E c \in CertIds : certs[c].medicoId = m /\ certs[c].ativo

\* The handlers' own query for an active certificate.
TemCertificadoAtivo(m) == CertificadosAtivos(m) # {}

\* Laudo.findOne({ exame, valido: true })
LaudoExistente_semValido(e) == \E l \in LaudoIds : laudos[l].exame = e

LaudoExistente(e) == \E l \in LaudoIds : laudos[l].exame = e /\ laudos[l].valido

\* An Exame document before any report: revisao counts the updates of its
\* data, excluido marks a document removed by findByIdAndDelete.
ExameNovo == [status |-> "Pendente", laudo |-> 0, revisao |-> 0, excluido |-> FALSE]

\* ------------------------------------------------------------------ Init
\* A CertificadoDigital record as registrarCertificado saves it.
NovoCertificado(m, f, senha) ==
  [medicoId |-> m, arquivo |-> f, fingerprint |-> f, ativo |-> TRUE,
   senhaCertificado |-> senha, totalAssinaturas |-> 0, falhas |-> 0]

\* The certificate collection when the service starts: empty, or the
\* physician's certificate, registered with the file's password or migrated.
CertificadosIniciais ==
  {<<>>} \cup {<<NovoCertificado("m1", "fA", s)>> : s \in {SenhaP12("fA")} \cup SenhasLegadas}

InitDados ==
  /\ laudos = <<>>
  /\ exames = [e \in Exames |-> ExameNovo]
  /\ certs \in CertificadosIniciais
  /\ vencidos = {}
  /\ arquivos = CertIds
  /\ s3 = {}
  /\ uploadcare = {}
  /\ audit = {}
  /\ proc = [p \in Procs |-> Ocioso]
  /\ nreq = 0

Init == InitDados /\ slots = Cardinality(Procs)

\* The same service handling one request at a time.
InitSeq == InitDados /\ slots = 1

\* ------------------------------------------------------------------ helpers
EmCurso == {q \in Procs : proc[q].pc # "idle"}

\* A new request takes the first free slot.
Anteriores(p) == IF p = "p2" THEN {"p1"} ELSE {}

Admitido(p) ==
  /\ Cardinality(EmCurso) < slots
  /\ \A q \in Anteriores(p) : q \in EmCurso

\* A request arrives and runs up to its first await or early return.
Requisicao(p, campos) ==
  /\ nreq < MaxReq
  /\ Admitido(p)
  /\ nreq' = nreq + 1
  /\ proc' = [proc EXCEPT ![p] = campos @@ Ocioso]
  /\ UNCHANGED slots

Avanca(p, passo) == /\ proc' = [proc EXCEPT ![p].pc = passo]
                    /\ UNCHANGED <<nreq, slots>>

Responde(p, codigo) ==
  /\ proc' = [proc EXCEPT ![p].pc = "done", ![p].resp = codigo]
  /\ UNCHANGED <<nreq, slots>>

\* catch block of criarLaudo / refazerLaudo
ErroAoGerarPdf(l) == [laudos EXCEPT ![l].status = "Erro ao gerar PDF"]

\* ------------------------------------------------------------------ criarLaudo
CriarInicio(p, e, m) ==
  /\ proc[p].pc = "idle"
  /\ IF exames[e].excluido
     THEN Requisicao(p, [pc |-> "done", op |-> "criar", usuario |-> m,
                         exame |-> e, resp |-> "404"])
     ELSE IF LaudoExistente(e)
     THEN Requisicao(p, [pc |-> "done", op |-> "criar", usuario |-> m,
                         exame |-> e, resp |-> "400_laudo_existente"])
     ELSE Requisicao(p, [pc |-> "cr_save", op |-> "criar", usuario |-> m,
                         exame |-> e, flag |-> TemCertificadoAtivo(m)])
  /\ UNCHANGED <<laudos, exames, certs, vencidos, arquivos, s3, uploadcare, audit>>

CriarSalvar_reverifica(p) ==
  /\ proc[p].pc = "cr_save"
  /\ IF LaudoExistente(proc[p].exame)
     THEN /\ Responde(p, "400_laudo_existente")
          /\ UNCHANGED laudos
     ELSE /\ laudos' = Append(laudos, NovoLaudo(proc[p].exame, proc[p].usuario,
                                                 "Laudo pronto para assinatura", <<>>))
          /\ UNCHANGED <<nreq, slots>>
          /\ proc' = [proc EXCEPT ![p].pc = "cr_pdf", ![p].lid = Len(laudos) + 1]
  /\ UNCHANGED <<exames, certs, vencidos, arquivos, s3, uploadcare, audit>>

CriarSalvar(p) ==
  /\ proc[p].pc = "cr_save"
  /\ laudos' = Append(laudos, NovoLaudo(proc[p].exame, proc[p].usuario,
                                         "Laudo pronto para assinatura", <<>>))
  /\ UNCHANGED <<nreq, slots>> /\ proc' = [proc EXCEPT ![p].pc = "cr_pdf", ![p].lid = Len(laudos) + 1]
  /\ UNCHANGED <<exames, certs, vencidos, arquivos, s3, uploadcare, audit>>

CriarPdfOriginal_falhaPropaga(p) ==
  /\ proc[p].pc = "cr_pdf"
  /\ \E render \in BOOLEAN, upload \in BOOLEAN :
       LET l == proc[p].lid
           key == S3Key(l, "original", "original")
       IN IF render /\ upload
          THEN /\ s3' = s3 \cup {key}
               /\ laudos' = [laudos EXCEPT ![l].laudoOriginalKey = key]
               /\ Avanca(p, "cr_exame")
          ELSE /\ laudos' = ErroAoGerarPdf(l)
               /\ Responde(p, "500")
               /\ UNCHANGED s3
  /\ UNCHANGED <<exames, certs, vencidos, arquivos, uploadcare, audit>>

CriarPdfOriginal(p) ==
  /\ proc[p].pc = "cr_pdf"
  /\ \E render \in BOOLEAN, upload \in BOOLEAN :
       LET l == proc[p].lid
           key == S3Key(l, "original", "original")
       IN IF render /\ upload
          THEN /\ s3' = s3 \cup {key}
               /\ laudos' = [laudos EXCEPT ![l].laudoOriginalKey = key]
          ELSE UNCHANGED <<s3, laudos>>
  /\ Avanca(p, "cr_exame")
  /\ UNCHANGED <<exames, certs, vencidos, arquivos, uploadcare, audit>>

CriarExame(p) ==
  /\ proc[p].pc = "cr_exame"
  /\ \E ok \in BOOLEAN :
       IF ok /\ ~exames[proc[p].exame].excluido
       THEN /\ exames' = [exames EXCEPT
                           ![proc[p].exame].status =
                               IF proc[p].flag THEN "Laudo pronto para assinatura"
                                               ELSE "Laudo realizado",
                           ![proc[p].exame].laudo = proc[p].lid]
            /\ Avanca(p, "cr_audit")
            /\ UNCHANGED laudos
       ELSE /\ laudos' = ErroAoGerarPdf(proc[p].lid)
            /\ Responde(p, "500")
            /\ UNCHANGED exames
  /\ UNCHANGED <<certs, vencidos, arquivos, s3, uploadcare, audit>>

CriarAuditoria(p) ==
  /\ proc[p].pc = "cr_audit"
  /\ \E ok \in BOOLEAN :
       IF ok
       THEN /\ audit' = audit \cup {[action |-> "create", documentId |-> proc[p].lid]}
            /\ Responde(p, "201")
            /\ UNCHANGED laudos
       ELSE /\ laudos' = ErroAoGerarPdf(proc[p].lid)
            /\ Responde(p, "500")
            /\ UNCHANGED audit
  /\ UNCHANGED <<exames, certs, vencidos, arquivos, s3, uploadcare>>

\* ------------------------------------------------------------------ gerarPdfLaudoAssinado
\* Where the caller resumes once gerarPdfLaudoAssinado has returned.
Continua(p) ==
  IF proc[p].op = "refazer" THEN "rf_final"
  ELSE IF proc[p].op = "assinar_auto" /\ proc[p].originalKey # Nulo THEN "as_delete"
  ELSE "as_save"

\* The exception thrown by gerarPdfLaudoAssinado reaches the caller's catch.
Lanca(p) ==
  /\ Responde(p, "500")
  /\ IF proc[p].op = "refazer"
     THEN laudos' = ErroAoGerarPdf(proc[p].lid)
     ELSE UNCHANGED laudos

\* certificado.registrarUso(true)
RegistrarUso(c) == [certs EXCEPT ![c].totalAssinaturas = @ + 1]

\* certificadoService.obterCertificadoParaAssinatura: the certificate found,
\* 0 when the query finds none or its file cannot be loaded.
ObterCertificadoParaAssinatura(m) ==
  LET cs == CertificadosAtivos(m)
  IN IF cs = {} THEN 0
     ELSE LET c == CHOOSE x \in cs : \A y \in cs : x <= y
          IN IF c \in arquivos THEN c ELSE 0

\* Render, fetch the certificate, try the password variants, record the use.
GerarPdfAssinar(p) ==
  /\ proc[p].pc = "pdf_sign"
  /\ LET c == ObterCertificadoParaAssinatura(proc[p].usuario)
     IN IF c = 0
        THEN /\ UNCHANGED <<nreq, slots>> /\ proc' = [proc EXCEPT ![p].pc = "pdf_s3",
                           ![p].res = [SemResultado EXCEPT
                              !.conteudo = "sem_assinatura",
                              !.assinadoCom = "sem_assinatura",
                              !.assinou = "sem_certificado"]]
             /\ UNCHANGED certs
        ELSE IF SenhaCorreta(certs[c].arquivo, certs[c].senhaCertificado) # 0
        THEN /\ UNCHANGED <<nreq, slots>> /\ proc' = [proc EXCEPT ![p].pc = "pdf_s3",
                           ![p].res = [SemResultado EXCEPT
                              !.conteudo = "assinado_certificado",
                              !.assinadoCom = "certificado_medico",
                              !.certificadoId = c,
                              !.assinou = "ok"]]
             /\ certs' = RegistrarUso(c)
        ELSE /\ UNCHANGED <<nreq, slots>> /\ proc' = [proc EXCEPT ![p].pc = "pdf_s3",
                           ![p].res = [SemResultado EXCEPT
                              !.conteudo = "sem_assinatura",
                              !.assinou = "falhou"]]
             /\ UNCHANGED certs
  /\ UNCHANGED <<laudos, exames, vencidos, arquivos, s3, uploadcare, audit>>

\* uploadLaudoToS3(bytes, laudoId, tenantId, 'assinado', filename)
GerarPdfUploadS3_semPersistir(p) ==
  /\ proc[p].pc = "pdf_s3"
  /\ LET key == S3Key(proc[p].lid, "assinado", proc[p].res.conteudo)
     IN /\ UNCHANGED <<nreq, slots>>
        /\ proc' = [proc EXCEPT ![p].pc = Continua(p),
                                ![p].res.success = TRUE,
                                ![p].res.fileUrl = S3Url(key),
                                ![p].res.s3Key = key]
  /\ UNCHANGED <<laudos, exames, certs, vencidos, arquivos, s3, uploadcare, audit>>

GerarPdfUploadS3(p) ==
  /\ proc[p].pc = "pdf_s3"
  /\ \E ok \in BOOLEAN :
       LET key == S3Key(proc[p].lid, "assinado", proc[p].res.conteudo)
       IN IF ok
          THEN /\ s3' = s3 \cup {key}
               /\ UNCHANGED <<nreq, slots>> /\ proc' = [proc EXCEPT ![p].pc = Continua(p),
                             ![p].res.success = TRUE,
                             ![p].res.fileUrl = S3Url(key),
                             ![p].res.s3Key = key]
          ELSE /\ UNCHANGED <<nreq, slots>> /\ proc' = [proc EXCEPT ![p].pc = "pdf_uc", ![p].res.falhas = @ + 1]
               /\ UNCHANGED s3
  /\ UNCHANGED <<laudos, exames, certs, vencidos, arquivos, uploadcare, audit>>

\* uploadPDFToUploadcare(pdfFile); a failure inside the signing try block is
\* caught by catch (signError), which starts over with the unsigned bytes.
GerarPdfUploadcare(p) ==
  /\ proc[p].pc = "pdf_uc"
  /\ \E ok \in BOOLEAN :
       IF ok
       THEN /\ uploadcare' = uploadcare \cup
                  {UploadcareUrl(proc[p].lid, proc[p].res.conteudo)}
            /\ UNCHANGED <<nreq, slots>> /\ proc' = [proc EXCEPT ![p].pc = Continua(p),
                          ![p].res.success = TRUE,
                          ![p].res.fileUrl =
                             UploadcareUrl(proc[p].lid, proc[p].res.conteudo)]
            /\ UNCHANGED laudos
       ELSE IF proc[p].res.conteudo = "assinado_certificado"
       THEN /\ UNCHANGED <<nreq, slots>> /\ proc' = [proc EXCEPT ![p].pc = "pdf_s3",
                          ![p].res.conteudo = "sem_assinatura",
                          ![p].res.assinadoCom = "-",
                          ![p].res.certificadoId = 0,
                          ![p].res.falhas = @ + 1]
            /\ UNCHANGED <<uploadcare, laudos>>
       ELSE /\ Lanca(p)
            /\ UNCHANGED uploadcare
  /\ UNCHANGED <<exames, certs, vencidos, arquivos, s3, audit>>

\* ------------------------------------------------------------------ refazerLaudo
\* historico: [...(laudoOriginal.historico || []), { acao: 'Refacao' (written
\* with a cedilla and a tilde in the source), versao: length + 1 }]
HistoricoRefeito_semCopia(hist, m) ==
  <<EntradaHistorico(m, "Refacao", "Laudo refeito", Len(hist) + 1)>>

HistoricoRefeito(hist, m) ==
  Append(hist, EntradaHistorico(m, "Refacao", "Laudo refeito", Len(hist) + 1))

\* findById of the original, new Laudo(...) and its first save.
RefazerInicio(p, l, m) ==
  /\ proc[p].pc = "idle"
  /\ l \in 1..Len(laudos) + 1
  /\ IF l \notin LaudoIds
     THEN /\ Requisicao(p, [pc |-> "done", op |-> "refazer", usuario |-> m,
                             orig |-> l, resp |-> "404"])
          /\ UNCHANGED laudos
     ELSE IF exames[laudos[l].exame].excluido
     THEN /\ Requisicao(p, [pc |-> "done", op |-> "refazer", usuario |-> m,
                             orig |-> l, resp |-> "500"])
          /\ UNCHANGED laudos
     ELSE /\ laudos' = Append(laudos,
                NovoLaudo(laudos[l].exame, m, "Laudo assinado",
                          HistoricoRefeito(laudos[l].historico, m)))
          /\ Requisicao(p, [pc |-> "rf_exame", op |-> "refazer", usuario |-> m,
                             orig |-> l, lid |-> Len(laudos) + 1,
                             exame |-> laudos[l].exame])
  /\ UNCHANGED <<exames, certs, vencidos, arquivos, s3, uploadcare, audit>>

RefazerExame(p) ==
  /\ proc[p].pc = "rf_exame"
  /\ \E ok \in BOOLEAN :
       IF ok /\ ~exames[proc[p].exame].excluido
       THEN /\ exames' = [exames EXCEPT
                           ![proc[p].exame].status = "Laudo realizado",
                           ![proc[p].exame].laudo = proc[p].lid]
            /\ Avanca(p, "rf_audit")
            /\ UNCHANGED laudos
       ELSE /\ laudos' = ErroAoGerarPdf(proc[p].lid)
            /\ Responde(p, "500")
            /\ UNCHANGED exames
  /\ UNCHANGED <<certs, vencidos, arquivos, s3, uploadcare, audit>>

RefazerAuditoria(p) ==
  /\ proc[p].pc = "rf_audit"
  /\ \E ok \in BOOLEAN :
       IF ok
       THEN /\ audit' = audit \cup {[action |-> "recreate", documentId |-> proc[p].lid]}
            /\ Avanca(p, "pdf_sign")
            /\ UNCHANGED laudos
       ELSE /\ laudos' = ErroAoGerarPdf(proc[p].lid)
            /\ Responde(p, "500")
            /\ UNCHANGED audit
  /\ UNCHANGED <<exames, certs, vencidos, arquivos, s3, uploadcare>>

RefazerFinal(p) ==
  /\ proc[p].pc = "rf_final"
  /\ laudos' = [laudos EXCEPT ![proc[p].lid].laudoAssinado = proc[p].res.fileUrl,
                               ![proc[p].lid].dataAssinatura = TRUE]
  /\ Responde(p, "201")
  /\ UNCHANGED <<exames, certs, vencidos, arquivos, s3, uploadcare, audit>>

\* ------------------------------------------------------------------ assinarLaudoAutomaticamente / assinarLaudoManual
\* if (!['Laudo pronto para assinatura', 'Laudo realizado'].includes(laudo.status))
PodeSerAssinado_qualquerStatus(l) == TRUE

PodeSerAssinado(l) == laudos[l].status \in StatusPendentes

\* if (laudo.medicoResponsavelId.toString() !== usuarioId)
EhResponsavel_qualquerUsuario(l, m) == TRUE

EhResponsavel(l, m) == laudos[l].medicoResponsavelId = m

\* findById, the permission, status and active-certificate checks.
AssinarInicio(p, l, m, modo) ==
  /\ proc[p].pc = "idle"
  /\ l \in 1..Len(laudos) + 1
  /\ modo \in {"assinar_auto", "assinar_manual"}
  /\ IF l \notin LaudoIds
     THEN Requisicao(p, [pc |-> "done", op |-> modo, usuario |-> m, lid |-> l,
                         resp |-> "404"])
     ELSE IF ~EhResponsavel(l, m)
     THEN Requisicao(p, [pc |-> "done", op |-> modo, usuario |-> m, lid |-> l,
                         resp |-> "403"])
     ELSE IF ~PodeSerAssinado(l)
     THEN Requisicao(p, [pc |-> "done", op |-> modo, usuario |-> m, lid |-> l,
                         resp |-> "400_status"])
     ELSE IF ~TemCertificadoAtivo(m)
     THEN Requisicao(p, [pc |-> "done", op |-> modo, usuario |-> m, lid |-> l,
                         resp |-> "400_certificado"])
     ELSE IF exames[laudos[l].exame].excluido
     THEN Requisicao(p, [pc |-> "done", op |-> modo, usuario |-> m, lid |-> l,
                         resp |-> "500"])
     ELSE Requisicao(p, [pc |-> "pdf_sign", op |-> modo, usuario |-> m,
                         lid |-> l, exame |-> laudos[l].exame,
                         originalKey |-> laudos[l].laudoOriginalKey])
  /\ UNCHANGED <<laudos, exames, certs, vencidos, arquivos, s3, uploadcare, audit>>

\* deleteLaudoFromS3(laudo.laudoOriginalKey) in assinarLaudoAutomaticamente
AssinarExcluirOriginal(p) ==
  /\ proc[p].pc = "as_delete"
  /\ \E ok \in BOOLEAN :
       IF ok
       THEN /\ s3' = s3 \ {proc[p].originalKey}
            /\ UNCHANGED <<nreq, slots>> /\ proc' = [proc EXCEPT ![p].pc = "as_save", ![p].flag = TRUE]
       ELSE /\ Avanca(p, "as_save")
            /\ UNCHANGED s3
  /\ UNCHANGED <<laudos, exames, certs, vencidos, arquivos, uploadcare, audit>>

\* laudo.laudoOriginalKey = null sits after deleteLaudoFromS3 inside the try:
\* the key is cleared only when the deletion succeeded.
ChaveOriginalApos_sempreLimpa(chave, p) == Nulo

ChaveOriginalApos(chave, p) == IF proc[p].flag THEN Nulo ELSE chave

\* The fields both Sign handlers set, the history push and laudo.save().
LaudoAssinado(doc, p, detalhes) ==
  [doc EXCEPT !.arquivoPath = proc[p].res.fileUrl,
              !.assinadoDigitalmente = TRUE,
              !.assinadoCom = proc[p].res.assinadoCom,
              !.certificadoId = proc[p].res.certificadoId,
              !.status = "Laudo assinado",
              !.dataAssinatura = TRUE,
              !.historico = Append(@, EntradaHistorico(proc[p].usuario,
                                        "Assinatura", detalhes, doc.versao))]

\* The document each Sign handler saves: only the automatic one records the
\* S3 key of the signed artifact and clears the key of a deleted original.
LaudoSalvoPor(modo, doc, p) ==
  IF modo = "assinar_auto"
  THEN [LaudoAssinado(doc, p, "Laudo assinado automaticamente com certificado digital")
          EXCEPT !.laudoAssinadoKey =
                    IF proc[p].res.s3Key # Nulo THEN proc[p].res.s3Key ELSE @,
                 !.laudoOriginalKey = ChaveOriginalApos(@, p)]
  ELSE LaudoAssinado(doc, p, "Laudo assinado manualmente com certificado digital")

AssinarSalvar(p) ==
  /\ proc[p].pc = "as_save"
  /\ laudos' = [laudos EXCEPT ![proc[p].lid] = LaudoSalvoPor(proc[p].op, @, p)]
  /\ Avanca(p, "as_exame")
  /\ UNCHANGED <<exames, certs, vencidos, arquivos, s3, uploadcare, audit>>

AssinarExame(p) ==
  /\ proc[p].pc = "as_exame"
  /\ exames' = IF exames[proc[p].exame].excluido THEN exames
               ELSE [exames EXCEPT ![proc[p].exame].status = "Laudo realizado"]
  /\ Responde(p, "200")
  /\ UNCHANGED <<laudos, certs, vencidos, arquivos, s3, uploadcare, audit>>

\* ------------------------------------------------------------------ uploadLaudoAssinado
UploadInicio(p, l, m, mime) ==
  /\ proc[p].pc = "idle"
  /\ l \in 1..Len(laudos) + 1
  /\ IF mime # "application/pdf"
     THEN Requisicao(p, [pc |-> "done", op |-> "upload", usuario |-> m, lid |-> l,
                         resp |-> "400_mime"])
     ELSE IF l \notin LaudoIds
     THEN Requisicao(p, [pc |-> "done", op |-> "upload", usuario |-> m, lid |-> l,
                         resp |-> "404"])
     ELSE IF ~EhResponsavel(l, m)
     THEN Requisicao(p, [pc |-> "done", op |-> "upload", usuario |-> m, lid |-> l,
                         resp |-> "403"])
     ELSE IF ~PodeSerAssinado(l)
     THEN Requisicao(p, [pc |-> "done", op |-> "upload", usuario |-> m, lid |-> l,
                         resp |-> "400_status"])
     ELSE Requisicao(p, [pc |-> "up_s3", op |-> "upload", usuario |-> m, lid |-> l,
                         exame |-> laudos[l].exame,
                         originalKey |-> laudos[l].laudoOriginalKey,
                         res |-> [SemResultado EXCEPT !.conteudo = "upload_manual"]])
  /\ UNCHANGED <<laudos, exames, certs, vencidos, arquivos, s3, uploadcare, audit>>

\* Where uploadLaudoAssinado resumes once the bytes are stored.
UploadContinua(p) == IF proc[p].originalKey # Nulo THEN "up_delete" ELSE "up_save"

\* uploadLaudoStreamToS3(req.file.buffer, ...)
UploadS3(p) ==
  /\ proc[p].pc = "up_s3"
  /\ \E ok \in BOOLEAN :
       LET key == S3Key(proc[p].lid, "assinado", "upload_manual")
       IN IF ok
          THEN /\ s3' = s3 \cup {key}
               /\ UNCHANGED <<nreq, slots>> /\ proc' = [proc EXCEPT ![p].pc = UploadContinua(p),
                             ![p].res.success = TRUE,
                             ![p].res.fileUrl = S3Url(key),
                             ![p].res.s3Key = key]
          ELSE /\ UNCHANGED <<nreq, slots>> /\ proc' = [proc EXCEPT ![p].pc = "up_uc", ![p].res.falhas = @ + 1]
               /\ UNCHANGED s3
  /\ UNCHANGED <<laudos, exames, certs, vencidos, arquivos, uploadcare, audit>>

\* uploadPDFToUploadcare(pdfFile), the fallback
UploadUploadcare(p) ==
  /\ proc[p].pc = "up_uc"
  /\ \E ok \in BOOLEAN :
       IF ok
       THEN /\ uploadcare' = uploadcare \cup
                  {UploadcareUrl(proc[p].lid, "upload_manual")}
            /\ UNCHANGED <<nreq, slots>> /\ proc' = [proc EXCEPT ![p].pc = UploadContinua(p),
                          ![p].res.success = TRUE,
                          ![p].res.fileUrl =
                             UploadcareUrl(proc[p].lid, "upload_manual")]
       ELSE /\ UNCHANGED <<nreq, slots>> /\ proc' = [proc EXCEPT ![p].pc = "done", ![p].resp = "500",
                          ![p].res.falhas = @ + 1]
            /\ UNCHANGED uploadcare
  /\ UNCHANGED <<laudos, exames, certs, vencidos, arquivos, s3, audit>>

UploadExcluirOriginal(p) ==
  /\ proc[p].pc = "up_delete"
  /\ \E ok \in BOOLEAN :
       IF ok
       THEN /\ s3' = s3 \ {proc[p].originalKey}
            /\ UNCHANGED <<nreq, slots>> /\ proc' = [proc EXCEPT ![p].pc = "up_save", ![p].flag = TRUE]
       ELSE /\ Avanca(p, "up_save")
            /\ UNCHANGED s3
  /\ UNCHANGED <<laudos, exames, certs, vencidos, arquivos, uploadcare, audit>>

UploadSalvar(p) ==
  /\ proc[p].pc = "up_save"
  /\ laudos' = [laudos EXCEPT ![proc[p].lid] =
       [@ EXCEPT !.laudoAssinadoKey =
                    IF proc[p].res.s3Key # Nulo THEN proc[p].res.s3Key ELSE @,
                 !.laudoOriginalKey = ChaveOriginalApos(@, p),
                 !.arquivoPath = proc[p].res.fileUrl,
                 !.assinadoDigitalmente = FALSE,
                 !.assinadoCom = "upload_manual",
                 !.status = "Laudo assinado",
                 !.dataAssinatura = TRUE,
                 !.historico = Append(@, EntradaHistorico(proc[p].usuario,
                                  "Assinatura", "Laudo assinado via upload manual",
                                  laudos[proc[p].lid].versao))]]
  /\ Avanca(p, "up_exame")
  /\ UNCHANGED <<exames, certs, vencidos, arquivos, s3, uploadcare, audit>>

\* The exam update and the audit write, whose failure is swallowed.
UploadExame(p) ==
  /\ proc[p].pc = "up_exame"
  /\ exames' = IF exames[proc[p].exame].excluido THEN exames
               ELSE [exames EXCEPT ![proc[p].exame].status = "Laudo realizado"]
  /\ \E ok \in BOOLEAN :
       IF ok
       THEN audit' = audit \cup {[action |-> "update", documentId |-> proc[p].lid]}
       ELSE UNCHANGED audit
  /\ Responde(p, "200")
  /\ UNCHANGED <<laudos, certs, vencidos, arquivos, s3, uploadcare>>

\* ------------------------------------------------------------------ invalidarLaudo
\* Laudo.findByIdAndUpdate(id, { valido: false, status: 'Invalidado' })
Invalidado(doc) == [doc EXCEPT !.valido = FALSE, !.status = "Invalidado"]

InvalidarLaudo(p, l) ==
  /\ proc[p].pc = "idle"
  /\ l \in LaudoIds
  /\ laudos' = [laudos EXCEPT ![l] = Invalidado(@)]
  /\ Requisicao(p, [pc |-> "done", op |-> "invalidar", lid |-> l, resp |-> "200"])
  /\ UNCHANGED <<exames, certs, vencidos, arquivos, s3, uploadcare, audit>>

\* ------------------------------------------------------------------ certificadoDigitalService
\* The existence check, analisarCertificado, the expiry and fingerprint
\* checks, salvarCertificadoSeguro and the save of the new record.
\* CertificadoDigital.findOne({ fingerprint: infoCertificado.fingerprint })
CertificadoDuplicado_soAtivos(f) ==
  \E c \in CertIds : certs[c].fingerprint = f /\ certs[c].ativo

CertificadoDuplicado(f) == \E c \in CertIds : certs[c].fingerprint = f

RegistrarCertificado(p, m, f, senha) ==
  /\ proc[p].pc = "idle"
  /\ IF \/ TemCertificadoAtivo(m)
        \/ ~AbreP12(f, senha)
        \/ f \in vencidos
        \/ CertificadoDuplicado(f)
     THEN /\ Requisicao(p, [pc |-> "done", op |-> "registrar", usuario |-> m,
                             arquivo |-> f, resp |-> "erro"])
          /\ UNCHANGED <<certs, arquivos>>
     ELSE /\ certs' = Append(certs, NovoCertificado(m, f, senha))
          /\ arquivos' = arquivos \cup {Len(certs) + 1}
          /\ Requisicao(p, [pc |-> "done", op |-> "registrar", usuario |-> m,
                             arquivo |-> f, resp |-> "ok"])
  /\ UNCHANGED <<laudos, exames, vencidos, s3, uploadcare, audit>>

\* registrarCertificado step by step. The request arrives and runs
\* CertificadoDigital.findOne({medicoId, ativo: true, dataVencimento > now}).
RegistrarVerificar(p, m, f, senha) ==
  /\ proc[p].pc = "idle"
  /\ IF TemCertificadoAtivo(m)
     THEN Requisicao(p, [pc |-> "done", op |-> "registrar", usuario |-> m,
                         arquivo |-> f, resp |-> "erro"])
     ELSE Requisicao(p, [pc |-> "rg_analisar", op |-> "registrar", usuario |-> m,
                         arquivo |-> f, flag |-> AbreP12(f, senha)])
  /\ UNCHANGED <<laudos, exames, certs, vencidos, arquivos, s3, uploadcare, audit>>

\* analisarCertificado, the expiry check and the fingerprint findOne.
RegistrarAnalisar(p) ==
  /\ proc[p].pc = "rg_analisar"
  /\ IF \/ ~proc[p].flag
        \/ proc[p].arquivo \in vencidos
        \/ CertificadoDuplicado(proc[p].arquivo)
     THEN Responde(p, "erro")
     ELSE Avanca(p, "rg_salvar")
  /\ UNCHANGED <<laudos, exames, certs, vencidos, arquivos, s3, uploadcare, audit>>

\* The fingerprint is unique in the collection: a save that would store a
\* second record with the same fingerprint is refused by the store.
FingerprintUnico(f) == \A c \in CertIds : certs[c].fingerprint # f

\* salvarCertificadoSeguro and novoCertificado.save().
RegistrarSalvar(p) ==
  /\ proc[p].pc = "rg_salvar"
  /\ IF FingerprintUnico(proc[p].arquivo)
     THEN /\ certs' = Append(certs, NovoCertificado(proc[p].usuario, proc[p].arquivo,
                                                     SenhaP12(proc[p].arquivo)))
          /\ arquivos' = arquivos \cup {Len(certs) + 1}
          /\ Responde(p, "ok")
     ELSE /\ UNCHANGED <<certs, arquivos>>
          /\ Responde(p, "erro")
  /\ UNCHANGED <<laudos, exames, vencidos, s3, uploadcare, audit>>

\* certificado.ativo = false; save; best-effort unlink of the file.
RemoverCertificado(p, c, m) ==
  /\ proc[p].pc = "idle"
  /\ c \in CertIds
  /\ certs[c].medicoId = m
  /\ certs[c].ativo
  /\ certs' = [certs EXCEPT ![c].ativo = FALSE]
  /\ \E unlink \in BOOLEAN :
       arquivos' = IF unlink THEN arquivos \ {c} ELSE arquivos
  /\ Requisicao(p, [pc |-> "done", op |-> "remover", usuario |-> m, resp |-> "ok"])
  /\ UNCHANGED <<laudos, exames, vencidos, s3, uploadcare, audit>>

\* Time passes a certificate's dataVencimento.
Vencer(f) ==
  /\ f \in ArquivosP12 \ vencidos
  /\ \E c \in CertIds : certs[c].arquivo = f
  /\ vencidos' = vencidos \cup {f}
  /\ UNCHANGED <<laudos, exames, certs, arquivos, s3, uploadcare, audit, proc, nreq, slots>>

\* ------------------------------------------------------------------ exameController
\* if (statusAtual === 'Laudo realizado') return 403
ExameBloqueado(e) == exames[e].status = "Laudo realizado"

\* The status values atualizarExame accepts in the body; "-" is no status.
StatusDeExame == {"-", "Pendente", "Concluido", "Laudo realizado"}

\* atualizarExame up to findByIdAndUpdate: the lookup, the guard, the status
\* validation and the upload of a new file.
AtualizarExame(p, e, st) ==
  /\ proc[p].pc = "idle"
  /\ st \in StatusDeExame
  /\ IF exames[e].excluido
     THEN Requisicao(p, [pc |-> "done", op |-> "atualizar_exame", exame |-> e,
                         resp |-> "404"])
     ELSE IF ExameBloqueado(e)
     THEN Requisicao(p, [pc |-> "done", op |-> "atualizar_exame", exame |-> e,
                         resp |-> "403"])
     ELSE IF st = "Laudo realizado"
     THEN Requisicao(p, [pc |-> "done", op |-> "atualizar_exame", exame |-> e,
                         resp |-> "403_status"])
     ELSE \E upload \in BOOLEAN :
            IF upload
            THEN Requisicao(p, [pc |-> "ex_update", op |-> "atualizar_exame",
                                exame |-> e, novoStatus |-> st])
            ELSE Requisicao(p, [pc |-> "done", op |-> "atualizar_exame",
                                exame |-> e, resp |-> "500"])
  /\ UNCHANGED <<laudos, exames, certs, vencidos, arquivos, s3, uploadcare, audit>>

\* Exame.findByIdAndUpdate(id, updateData) and the response.
AtualizarExameSalvar(p) ==
  /\ proc[p].pc = "ex_update"
  /\ LET e == proc[p].exame
     IN IF exames[e].excluido
        THEN /\ UNCHANGED exames
             /\ Responde(p, "500")
        ELSE /\ exames' = [exames EXCEPT
                             ![e].revisao = @ + 1,
                             ![e].status = IF proc[p].novoStatus = "-" THEN @
                                           ELSE proc[p].novoStatus]
             /\ Responde(p, "200")
  /\ UNCHANGED <<laudos, certs, vencidos, arquivos, s3, uploadcare, audit>>

\* deletarExame up to findByIdAndDelete: the lookup and the guard.
DeletarExame(p, e) ==
  /\ proc[p].pc = "idle"
  /\ IF exames[e].excluido
     THEN Requisicao(p, [pc |-> "done", op |-> "deletar_exame", exame |-> e,
                         resp |-> "404"])
     ELSE IF ExameBloqueado(e)
     THEN Requisicao(p, [pc |-> "done", op |-> "deletar_exame", exame |-> e,
                         resp |-> "403"])
     ELSE Requisicao(p, [pc |-> "ex_delete", op |-> "deletar_exame", exame |-> e])
  /\ UNCHANGED <<laudos, exames, certs, vencidos, arquivos, s3, uploadcare, audit>>

\* Exame.findByIdAndDelete(id) and the response.
DeletarExameSalvar(p) ==
  /\ proc[p].pc = "ex_delete"
  /\ exames' = [exames EXCEPT ![proc[p].exame].excluido = TRUE]
  /\ Responde(p, "200")
  /\ UNCHANGED <<laudos, certs, vencidos, arquivos, s3, uploadcare, audit>>

\* ------------------------------------------------------------------ specification
\* The response has been sent; the request is over.
Retornar(p) ==
  /\ proc[p].pc = "done"
  /\ UNCHANGED <<nreq, slots>> /\ proc' = [proc EXCEPT ![p] = Ocioso]
  /\ UNCHANGED <<laudos, exames, certs, vencidos, arquivos, s3, uploadcare, audit>>

Passo(p) ==
  \/ \E e \in Exames, m \in Criadores : CriarInicio(p, e, m)
  \/ CriarSalvar(p)
  \/ CriarPdfOriginal(p)
  \/ CriarExame(p)
  \/ CriarAuditoria(p)
  \/ \E l \in 1..Len(laudos) + 1, m \in Criadores : RefazerInicio(p, l, m)
  \/ RefazerExame(p)
  \/ RefazerAuditoria(p)
  \/ RefazerFinal(p)
  \/ \E l \in 1..Len(laudos) + 1, m \in Medicos,
        modo \in {"assinar_auto", "assinar_manual"} : AssinarInicio(p, l, m, modo)
  \/ GerarPdfAssinar(p)
  \/ GerarPdfUploadS3(p)
  \/ GerarPdfUploadcare(p)
  \/ AssinarExcluirOriginal(p)
  \/ AssinarSalvar(p)
  \/ AssinarExame(p)
  \/ \E l \in 1..Len(laudos) + 1, m \in Medicos, mime \in MimeTypes :
        UploadInicio(p, l, m, mime)
  \/ UploadS3(p)
  \/ UploadUploadcare(p)
  \/ UploadExcluirOriginal(p)
  \/ UploadSalvar(p)
  \/ UploadExame(p)
  \/ \E l \in LaudoIds : InvalidarLaudo(p, l)
  \/ \E c \in CertIds, m \in Medicos : RemoverCertificado(p, c, m)
  \/ Retornar(p)

\* Requests interleave at every await.
Next ==
  \/ \E p \in Procs : Passo(p)
  \/ \E f \in ArquivosP12 : Vencer(f)

Spec == Init /\ [][Next]_vars

SpecSeq == InitSeq /\ [][Next]_vars

\* Stored passwords of every shape: exact, padded, in another case, wrong.
CaracteresDeSenha == {"A", "b", " "}

SenhasArmazenadas ==
  UNION {[1..n -> CaracteresDeSenha] : n \in 1..MaxSenha}

\* The physician's certificate record holds any such password for a file
\* whose PKCS#12 password is mixed-case, lower-case or empty.
InitSenha ==
  /\ laudos = <<>>
  /\ exames = [e \in Exames |-> ExameNovo]
  /\ \E f \in ArquivosP12 \cup {"fV"}, senha \in SenhasArmazenadas :
       certs = <<NovoCertificado("m1", f, senha)>>
  /\ vencidos = {}
  /\ arquivos = CertIds
  /\ s3 = {}
  /\ uploadcare = {}
  /\ audit = {}
  /\ proc = [p \in Procs |-> Ocioso]
  /\ nreq = 0
  /\ slots = 1

\* Create followed by Sign, one request at a time.
NextSenha ==
  \E p \in Procs :
    \/ \E e \in Exames, m \in Criadores : CriarInicio(p, e, m)
    \/ CriarSalvar(p)
    \/ CriarPdfOriginal(p)
    \/ CriarExame(p)
    \/ CriarAuditoria(p)
    \/ \E l \in 1..Len(laudos) + 1, m \in Criadores,
          modo \in {"assinar_auto", "assinar_manual"} : AssinarInicio(p, l, m, modo)
    \/ GerarPdfAssinar(p)
    \/ GerarPdfUploadS3(p)
    \/ GerarPdfUploadcare(p)
    \/ AssinarExcluirOriginal(p)
    \/ AssinarSalvar(p)
    \/ AssinarExame(p)
    \/ Retornar(p)

SpecSenha == InitSenha /\ [][NextSenha]_vars

\* Create and Invalidate requests alone, interleaving at every await.
NextCriar ==
  \E p \in Procs :
    \/ \E e \in Exames, m \in Criadores : CriarInicio(p, e, m)
    \/ CriarSalvar(p)
    \/ CriarPdfOriginal(p)
    \/ CriarExame(p)
    \/ CriarAuditoria(p)
    \/ \E l \in LaudoIds : InvalidarLaudo(p, l)
    \/ Retornar(p)

SpecCriar == Init /\ [][NextCriar]_vars

\* Create, Sign, Upload, Invalidate and the removal of a certificate,
\* interleaving at every await.
NextAssinar ==
  \E p \in Procs :
    \/ \E e \in Exames, m \in Criadores : CriarInicio(p, e, m)
    \/ CriarSalvar(p)
    \/ CriarPdfOriginal(p)
    \/ CriarExame(p)
    \/ CriarAuditoria(p)
    \/ \E l \in 1..Len(laudos) + 1, m \in Criadores,
          modo \in {"assinar_auto", "assinar_manual"} : AssinarInicio(p, l, m, modo)
    \/ GerarPdfAssinar(p)
    \/ GerarPdfUploadS3(p)
    \/ GerarPdfUploadcare(p)
    \/ AssinarExcluirOriginal(p)
    \/ AssinarSalvar(p)
    \/ AssinarExame(p)
    \/ \E l \in 1..Len(laudos) + 1, m \in Criadores, mime \in MimeTypes :
          UploadInicio(p, l, m, mime)
    \/ UploadS3(p)
    \/ UploadUploadcare(p)
    \/ UploadExcluirOriginal(p)
    \/ UploadSalvar(p)
    \/ UploadExame(p)
    \/ \E l \in LaudoIds : InvalidarLaudo(p, l)
    \/ \E c \in CertIds, m \in Criadores : RemoverCertificado(p, c, m)
    \/ Retornar(p)

SpecAssinar == Init /\ [][NextAssinar]_vars

\* Create, Refazer, Sign, Upload and the update and deletion of exams, one
\* request at a time.
NextExame ==
  \E p \in Procs :
    \/ \E e \in Exames, m \in Criadores : CriarInicio(p, e, m)
    \/ CriarSalvar(p)
    \/ CriarPdfOriginal(p)
    \/ CriarExame(p)
    \/ CriarAuditoria(p)
    \/ \E l \in 1..Len(laudos) + 1, m \in Criadores : RefazerInicio(p, l, m)
    \/ RefazerExame(p)
    \/ RefazerAuditoria(p)
    \/ RefazerFinal(p)
    \/ \E l \in 1..Len(laudos) + 1, m \in Criadores,
          modo \in {"assinar_auto", "assinar_manual"} : AssinarInicio(p, l, m, modo)
    \/ GerarPdfAssinar(p)
    \/ GerarPdfUploadS3(p)
    \/ GerarPdfUploadcare(p)
    \/ AssinarExcluirOriginal(p)
    \/ AssinarSalvar(p)
    \/ AssinarExame(p)
    \/ \E l \in 1..Len(laudos) + 1, m \in Criadores, mime \in MimeTypes :
          UploadInicio(p, l, m, mime)
    \/ UploadS3(p)
    \/ UploadUploadcare(p)
    \/ UploadExcluirOriginal(p)
    \/ UploadSalvar(p)
    \/ UploadExame(p)
    \/ \E e \in Exames, st \in StatusDeExame : AtualizarExame(p, e, st)
    \/ AtualizarExameSalvar(p)
    \/ \E e \in Exames : DeletarExame(p, e)
    \/ DeletarExameSalvar(p)
    \/ Retornar(p)

SpecExame == InitSeq /\ [][NextExame]_vars

\* The certificate service alone.
NextCert ==
  \/ \E p \in Procs, m \in Medicos, f \in ArquivosP12 :
        RegistrarCertificado(p, m, f, SenhaP12(f))
  \/ \E p \in Procs, c \in CertIds, m \in Medicos : RemoverCertificado(p, c, m)
  \/ \E p \in Procs : Retornar(p)
  \/ \E f \in ArquivosP12 : Vencer(f)

SpecCert == InitSeq /\ [][NextCert]_vars

\* A password that opens no certificate file.
SenhaErrada == <<"x">>

\* Registrations and removals of certificates, interleaving at every await.
NextRegistrar ==
  \/ \E p \in Procs, m \in Medicos, f \in ArquivosP12 :
        \E senha \in {SenhaP12(f), SenhaErrada} : RegistrarVerificar(p, m, f, senha)
  \/ \E p \in Procs : RegistrarAnalisar(p)
  \/ \E p \in Procs : RegistrarSalvar(p)
  \/ \E p \in Procs, c \in CertIds, m \in Medicos : RemoverCertificado(p, c, m)
  \/ \E p \in Procs : Retornar(p)
  \/ \E f \in ArquivosP12 : Vencer(f)

SpecRegistrar == Init /\ [][NextRegistrar]_vars

\* ================================================================== properties
Assinaturas == {"assinar_auto", "assinar_manual"}
OpsAssinatura == Assinaturas \cup {"upload"}

\* Process p receives a request of one of the kinds ops in this step.
Chega(p, ops) ==
  proc[p].pc = "idle" /\ proc'[p].pc # "idle" /\ proc'[p].op \in ops

LaudosValidos(e) == {l \in LaudoIds : laudos[l].exame = e /\ laudos[l].valido}

TemArtefatoAssinado(doc) ==
  doc.laudoAssinadoKey # Nulo \/ doc.laudoAssinado # Nulo \/ doc.arquivoPath # Nulo

EstaInvalidado(doc) == doc.status = "Invalidado" /\ ~doc.valido

SemCertificadoVigente(m) ==
  \A c \in CertIds :
    ~(certs[c].medicoId = m /\ certs[c].ativo /\ certs[c].arquivo \notin vencidos)

NumAssinaturas(l) ==
  Cardinality({i \in DOMAIN laudos[l].historico :
                 laudos[l].historico[i].acao = "Assinatura"})

\* The saved document without the history detail text.
SemDetalhes(doc) ==
  [doc EXCEPT !.historico = [i \in DOMAIN @ |-> [@[i] EXCEPT !.detalhes = "-"]]]

\* C1: after any sequence of Create, Refazer, Sign, Upload and Invalidate
\* requests every exam has at most one report with valido = true.
C1_UmLaudoValidoPorExame ==
  \A e \in Exames : Cardinality(LaudosValidos(e)) <= 1

\* C2: every report whose status is 'Laudo assinado' has its signed key or
\* a signed-artifact URL populated, in every state, the ones between the
\* steps of Refazer, Sign and Upload included.
C2_AssinadoTemArtefato ==
  \A l \in LaudoIds :
    laudos[l].status = "Laudo assinado" => TemArtefatoAssinado(laudos[l])

\* C3: once a report is invalidated (valido = false, status 'Invalidado'),
\* no later request makes it valid again or gives it another status.
C3_InvalidacaoIrreversivel ==
  [][\A l \in LaudoIds :
       EstaInvalidado(laudos[l]) => EstaInvalidado(laudos'[l])]_vars

C3_Witness ==
  \E p \in Procs :
    /\ proc[p].pc = "done" /\ proc[p].op \in OpsAssinatura
    /\ proc[p].resp = "400_status"
    /\ proc[p].lid \in LaudoIds /\ EstaInvalidado(laudos[proc[p].lid])

\* C4: a Create for an exam that has a valid report is rejected, creates no
\* report and changes no exam; a Create for an exam without one (its report
\* invalidated) is accepted and saves a new report with valido = true.
C4_CriarRespeitaLaudoValido ==
  /\ [][\A p \in Procs :
          /\ (Chega(p, {"criar"}) /\ LaudosValidos(proc'[p].exame) # {})
               => /\ proc'[p].pc = "done"
                  /\ proc'[p].resp = "400_laudo_existente"
                  /\ UNCHANGED <<laudos, exames>>
          /\ (Chega(p, {"criar"}) /\ LaudosValidos(proc'[p].exame) = {})
               => proc'[p].pc = "cr_save"
          /\ (proc[p].pc = "cr_save" /\ proc'[p].pc # "cr_save")
               => /\ Len(laudos') = Len(laudos) + 1
                  /\ proc'[p].lid = Len(laudos')
                  /\ laudos'[Len(laudos')].valido
                  /\ laudos'[Len(laudos')].exame = proc[p].exame]_vars
  /\ [](\A p \in Procs :
          (proc[p].op = "criar" /\ proc[p].resp = "201")
            => /\ laudos[proc[p].lid].valido
               /\ laudos[proc[p].lid].exame = proc[p].exame
               /\ LaudosValidos(proc[p].exame) = {proc[p].lid})

C4_Witness ==
  \E p \in Procs :
    /\ proc[p].op = "criar" /\ proc[p].resp = "201"
    /\ \E l \in LaudoIds :
         /\ l < proc[p].lid
         /\ laudos[l].exame = proc[p].exame
         /\ EstaInvalidado(laudos[l])

\* C5: a Sign whose every password variant fails answers with an error and
\* leaves the report's status, assinadoDigitalmente flag and artifact
\* pointers as they were; it never completes with an unsigned document.
C5_FalhaDeSenhaEhErro ==
  \A p \in Procs :
    (proc[p].pc = "done" /\ proc[p].op \in Assinaturas
       /\ proc[p].res.assinou = "falhou")
      => /\ proc[p].resp = "500"
         /\ laudos[proc[p].lid].status \in StatusPendentes
         /\ ~laudos[proc[p].lid].assinadoDigitalmente
         /\ ~TemArtefatoAssinado(laudos[proc[p].lid])

\* C6: a Sign by a physician without an active, unexpired certificate is
\* answered with an error; report, exam and both blob stores are unchanged.
C6_SemCertificadoNaoAssina ==
  [][\A p \in Procs :
       (Chega(p, Assinaturas) /\ SemCertificadoVigente(proc'[p].usuario))
         => /\ proc'[p].pc = "done"
            /\ proc'[p].resp \in {"404", "403", "400_status", "400_certificado"}
            /\ (/\ proc'[p].lid \in LaudoIds
                /\ laudos[proc'[p].lid].medicoResponsavelId = proc'[p].usuario
                /\ laudos[proc'[p].lid].status \in StatusPendentes)
                 => proc'[p].resp = "400_certificado"
            /\ UNCHANGED <<laudos, exames, s3, uploadcare, certs>>]_vars

C6_Witness ==
  \E p \in Procs :
    /\ proc[p].pc = "done" /\ proc[p].op \in Assinaturas
    /\ proc[p].resp = "400_certificado"
    /\ \E c \in CertIds :
         /\ certs[c].medicoId = proc[p].usuario /\ certs[c].ativo
         /\ certs[c].arquivo \in vencidos

\* C7: a Sign (automatic or manual) or an Upload by a user who is not the
\* report's responsible physician is rejected before anything changes, and
\* a report goes from pending signature to 'Laudo assinado' only in a
\* request of its responsible physician.
C7_SoResponsavelAssina ==
  [][/\ \A p \in Procs :
          (/\ Chega(p, OpsAssinatura)
           /\ proc'[p].lid \in LaudoIds
           /\ laudos[proc'[p].lid].medicoResponsavelId # proc'[p].usuario)
            => /\ proc'[p].pc = "done"
               /\ proc'[p].resp \in {"403", "400_mime"}
               /\ (proc'[p].op \in Assinaturas => proc'[p].resp = "403")
               /\ UNCHANGED <<laudos, exames, certs, s3, uploadcare, audit>>
     /\ \A l \in LaudoIds :
          (laudos[l].status \in StatusPendentes
             /\ laudos'[l].status = "Laudo assinado")
            => \E p \in Procs :
                 /\ proc[p].pc \in {"as_save", "up_save"}
                 /\ proc[p].lid = l
                 /\ proc[p].usuario = laudos[l].medicoResponsavelId]_vars

C7_Witness ==
  \E p \in Procs :
    /\ proc[p].pc = "done" /\ proc[p].op \in OpsAssinatura
    /\ proc[p].resp = "403"
    /\ laudos[proc[p].lid].status \in StatusPendentes
    /\ laudos[proc[p].lid].medicoResponsavelId # proc[p].usuario

\* C8: a Sign or an Upload on a report that is not pending signature
\* ('Laudo assinado', 'Invalidado') is rejected without any change, a report
\* becomes 'Laudo assinado' only from a pending status, and with requests
\* handled one at a time a report is signed at most once.
C8_AssinaSoPendente ==
  /\ [][/\ \A p \in Procs :
             (/\ Chega(p, OpsAssinatura)
              /\ proc'[p].lid \in LaudoIds
              /\ laudos[proc'[p].lid].status \notin StatusPendentes)
               => /\ proc'[p].pc = "done"
                  /\ proc'[p].resp \in {"403", "400_status", "400_mime"}
                  /\ (/\ proc'[p].op \in Assinaturas
                      /\ laudos[proc'[p].lid].medicoResponsavelId = proc'[p].usuario)
                       => proc'[p].resp = "400_status"
                  /\ UNCHANGED <<laudos, exames, certs, s3, uploadcare, audit>>
        /\ \A l \in LaudoIds :
             (laudos[l].status # "Laudo assinado"
                /\ laudos'[l].status = "Laudo assinado")
               => laudos[l].status # "Laudo assinado"]_vars
  /\ [](\A l \in LaudoIds : NumAssinaturas(l) <= 1)

C8_Witness ==
  \E p \in Procs :
    /\ proc[p].pc = "done" /\ proc[p].op \in OpsAssinatura
    /\ proc[p].resp = "400_status"
    /\ laudos[proc[p].lid].status = "Laudo assinado"
    /\ NumAssinaturas(proc[p].lid) = 1

\* C9: the manual and the automatic Sign save the same document (status,
\* signed key, original key, flags), the history detail text apart.
C9_ManualIgualAutomatico ==
  \A p \in Procs :
    proc[p].pc = "as_save"
      => SemDetalhes(LaudoSalvoPor("assinar_manual", laudos[proc[p].lid], p))
           = SemDetalhes(LaudoSalvoPor("assinar_auto", laudos[proc[p].lid], p))

\* C10: a Sign or an Upload in which both the S3 upload and the UploadCare
\* upload have failed answers with an error and leaves the report pending.
C10_DuasFalhasEhErro ==
  \A p \in Procs :
    (proc[p].pc = "done" /\ proc[p].op \in OpsAssinatura
       /\ proc[p].res.falhas >= 2)
      => /\ proc[p].resp = "500"
         /\ laudos[proc[p].lid].status \in StatusPendentes

\* The bytes a URL designates are in the store it names.
Persistido(url) ==
  \/ url \in uploadcare
  \/ \E k \in s3 : url = [store |-> "s3", lid |-> k.lid, conteudo |-> k.conteudo]

\* C11: when the deletion of the superseded original fails during an
\* automatic Sign or an Upload, the operation still completes: the signed
\* artifact stays stored, the report becomes 'Laudo assinado' with its
\* history entry, and laudoOriginalKey is cleared only when the deletion
\* succeeded (otherwise it still designates the undeleted original).
C11_FalhaAoExcluirOriginalNaoFalha ==
  /\ [][\A p \in Procs :
          /\ (proc[p].pc \in {"as_delete", "up_delete"} /\ proc'[p].pc # proc[p].pc)
               => /\ proc'[p].pc \in {"as_save", "up_save"}
                  /\ UNCHANGED <<laudos, exames, uploadcare>>
                  /\ s3' \in {s3, s3 \ {proc[p].originalKey}}
          /\ (proc[p].pc \in {"as_save", "up_save"} /\ proc'[p].pc # proc[p].pc
                /\ proc[p].op \in {"assinar_auto", "upload"})
               => LET antes == laudos[proc[p].lid]
                      depois == laudos'[proc[p].lid]
                  IN /\ depois.status = "Laudo assinado"
                     /\ Len(depois.historico) = Len(antes.historico) + 1
                     /\ depois.historico[Len(depois.historico)].acao = "Assinatura"
                     /\ depois.laudoOriginalKey =
                          IF antes.laudoOriginalKey \in s3
                          THEN antes.laudoOriginalKey ELSE Nulo]_vars
  /\ [](\A p \in Procs :
          (proc[p].pc \in {"as_save", "as_exame", "up_save", "up_exame"}
             \/ (proc[p].pc = "done" /\ proc[p].resp = "200"
                   /\ proc[p].op \in OpsAssinatura))
            => Persistido(proc[p].res.fileUrl))

C11_Witness ==
  \E p \in Procs :
    /\ proc[p].pc = "done" /\ proc[p].resp = "200"
    /\ proc[p].op \in {"assinar_auto", "upload"}
    /\ proc[p].originalKey # Nulo /\ proc[p].originalKey \in s3
    /\ laudos[proc[p].lid].laudoOriginalKey = proc[p].originalKey
    /\ laudos[proc[p].lid].status = "Laudo assinado"
    /\ Persistido(laudos[proc[p].lid].arquivoPath)

\* C12: Create does not fail when rendering or uploading the unsigned
\* original PDF fails: the step always goes on to the exam update with the
\* report still 'Laudo pronto para assinatura' and valido, laudoOriginalKey
\* is set exactly when the original was stored, and a Create answered with
\* success has linked the exam to the new report.
C12_CriarSemPdfOriginal ==
  /\ [][\A p \in Procs :
          (proc[p].pc = "cr_pdf" /\ proc'[p].pc # "cr_pdf")
            => LET depois == laudos'[proc[p].lid]
               IN /\ proc'[p].pc = "cr_exame"
                  /\ depois.status = "Laudo pronto para assinatura"
                  /\ depois.valido
                  /\ IF s3' = s3 THEN depois.laudoOriginalKey = Nulo
                     ELSE /\ depois.laudoOriginalKey \in s3'
                          /\ depois.laudoOriginalKey.tipo = "original"
                  /\ UNCHANGED exames]_vars
  /\ [](\A p \in Procs :
          (proc[p].op = "criar" /\ proc[p].resp = "201")
            => /\ laudos[proc[p].lid].status = "Laudo pronto para assinatura"
               /\ laudos[proc[p].lid].valido
               /\ exames[proc[p].exame].laudo = proc[p].lid
               /\ exames[proc[p].exame].status \in StatusPendentes)

C12_Witness ==
  \E p \in Procs :
    /\ proc[p].op = "criar" /\ proc[p].resp = "201"
    /\ laudos[proc[p].lid].laudoOriginalKey = Nulo
    /\ laudos[proc[p].lid].status = "Laudo pronto para assinatura"
    /\ laudos[proc[p].lid].valido
    /\ exames[proc[p].exame].laudo = proc[p].lid

\* C13: Refazer on a report L1 creates one new report L2 for the same exam
\* whose history is L1's entries in their order followed by exactly one new
\* 'Refacao' entry, repoints the exam's laudo link to L2, and leaves every
\* field of L1 (and of every other existing report) unchanged.
C13_RefazerCopiaHistorico ==
  /\ [][\A p \in Procs :
          /\ (Chega(p, {"refazer"}) /\ proc'[p].orig \in LaudoIds)
               => LET antigo == laudos[proc'[p].orig]
                      novo == laudos'[Len(laudos')]
                      n == Len(antigo.historico)
                  IN /\ Len(laudos') = Len(laudos) + 1
                     /\ proc'[p].lid = Len(laudos')
                     /\ novo.exame = antigo.exame
                     /\ Len(novo.historico) = n + 1
                     /\ \A i \in 1..n : novo.historico[i] = antigo.historico[i]
                     /\ novo.historico[n + 1].acao = "Refacao"
                     /\ novo.historico[n + 1].usuario = proc'[p].usuario
                     /\ \A l \in LaudoIds : laudos'[l] = laudos[l]
          /\ (proc[p].op = "refazer" /\ proc[p].pc # "done"
                /\ proc'[p].pc # proc[p].pc)
               => /\ \A l \in LaudoIds \ {proc[p].lid} : laudos'[l] = laudos[l]
                  /\ laudos'[proc[p].lid].historico = laudos[proc[p].lid].historico
          /\ (proc[p].pc = "rf_exame" /\ proc'[p].pc = "rf_audit")
               => exames'[proc[p].exame].laudo = proc[p].lid]_vars
  /\ [](\A p \in Procs :
          (proc[p].op = "refazer" /\ proc[p].resp = "201")
            => /\ exames[proc[p].exame].laudo = proc[p].lid
               /\ laudos[proc[p].lid].exame = laudos[proc[p].orig].exame
               /\ Len(laudos[proc[p].lid].historico)
                    = Len(laudos[proc[p].orig].historico) + 1)

C13_Witness ==
  \E p \in Procs :
    /\ proc[p].op = "refazer" /\ proc[p].resp = "201"
    /\ laudos[proc[p].orig].historico # <<>>
    /\ laudos[proc[p].orig].status = "Laudo assinado"
    /\ exames[proc[p].exame].laudo = proc[p].lid
    /\ laudos[proc[p].lid].historico[Len(laudos[proc[p].lid].historico)].acao
         = "Refacao"

\* C14: the report created by Refazer, and its 'Refacao' history entry, carry
\* the original report's version plus one, whatever the length of the
\* original's history.
C14_VersaoIncrementada ==
  \A p \in Procs :
    (proc[p].op = "refazer" /\ proc[p].orig \in LaudoIds
       /\ proc[p].lid \in LaudoIds)
      => LET antigo == laudos[proc[p].orig]
             novo == laudos[proc[p].lid]
         IN /\ novo.versao = antigo.versao + 1
            /\ novo.historico[Len(novo.historico)].versao = antigo.versao + 1

\* C15: every operation that changes a report's state (Create, Sign, Upload,
\* Refazer, Invalidate) appends an entry to that report's history in the
\* same transition, and no operation removes or rewrites an existing entry.
C15_TodaTransicaoNoHistorico ==
  [][\A l \in 1..Len(laudos') :
       IF l \notin LaudoIds
       THEN laudos'[l].historico # <<>>
       ELSE LET h == laudos[l].historico
                hd == laudos'[l].historico
            IN /\ Len(hd) >= Len(h)
               /\ \A i \in 1..Len(h) : hd[i] = h[i]
               /\ (laudos'[l].status # laudos[l].status
                     \/ laudos'[l].valido # laudos[l].valido)
                    => Len(hd) = Len(h) + 1]_vars

\* C16: the step of Create, Refazer or Upload that writes the audit record
\* never fails the operation: whether or not the record is written, the
\* request is not answered with an error and the report keeps the status and
\* validity it has when the write succeeds.
C16_FalhaDeAuditoriaNaoFalha ==
  [][\A p \in Procs :
       (proc[p].pc \in {"cr_audit", "rf_audit", "up_exame"}
          /\ proc'[p].pc # proc[p].pc)
         => /\ proc'[p].resp \in {"-", "200", "201"}
            /\ laudos'[proc[p].lid].status = laudos[proc[p].lid].status
            /\ laudos'[proc[p].lid].valido = laudos[proc[p].lid].valido]_vars

\* Position of a status in PendingSignature -> Signed -> Invalidated; 0 for a
\* status that is none of the state machine's.
Etapa(st) ==
  IF st \in StatusPendentes THEN 1
  ELSE IF st = "Laudo assinado" THEN 2
  ELSE IF st = "Invalidado" THEN 3
  ELSE 0

\* C17: every report's status is always a pending-signature status,
\* 'Laudo assinado' or 'Invalidado', and a step never moves a report
\* backwards along PendingSignature -> Signed -> Invalidated, not even a step
\* of an operation that fails part-way.
C17_StatusSoAvanca ==
  [][\A l \in 1..Len(laudos') :
       /\ Etapa(laudos'[l].status) # 0
       /\ l \in LaudoIds
            => Etapa(laudos'[l].status) >= Etapa(laudos[l].status)]_vars

CertificadosVigentes(m) ==
  {c \in CertIds : certs[c].medicoId = m /\ certs[c].ativo
                   /\ certs[c].arquivo \notin vencidos}

\* C18: after any sequence of certificate registrations and deactivations a
\* physician has at most one active, unexpired certificate: a registration
\* for a physician who has one is rejected and stores nothing, and one for a
\* physician who has none (the earlier one deactivated), with a valid
\* certificate not yet in the system, succeeds and stores an active record.
C18_UmCertificadoVigentePorMedico ==
  /\ [](\A m \in Medicos : Cardinality(CertificadosVigentes(m)) <= 1)
  /\ [][\A p \in Procs :
          Chega(p, {"registrar"})
            => LET m == proc'[p].usuario
                   f == proc'[p].arquivo
               IN /\ CertificadosVigentes(m) # {}
                       => /\ proc'[p].resp = "erro"
                          /\ UNCHANGED <<certs, arquivos>>
                  /\ (/\ CertificadosVigentes(m) = {}
                      /\ f \notin vencidos
                      /\ \A c \in CertIds : certs[c].fingerprint # f)
                       => /\ proc'[p].resp = "ok"
                          /\ Len(certs') = Len(certs) + 1
                          /\ certs'[Len(certs')].medicoId = m
                          /\ certs'[Len(certs')].arquivo = f
                          /\ certs'[Len(certs')].ativo
                          /\ \A c \in CertIds : certs'[c] = certs[c]]_vars

C18_Witness ==
  \E p \in Procs :
    /\ proc[p].op = "registrar" /\ proc[p].resp = "ok"
    /\ \E c \in CertIds :
         /\ certs[c].medicoId = proc[p].usuario
         /\ ~certs[c].ativo
         /\ certs[c].arquivo \notin vencidos
    /\ Cardinality(CertificadosVigentes(proc[p].usuario)) = 1

\* C19: no two certificate records share a fingerprint: a registration whose
\* certificate has the fingerprint of a stored record (of any physician,
\* active or deactivated) is rejected, creates no record and writes no file.
C19_FingerprintUnico ==
  /\ [](\A c1, c2 \in CertIds :
          certs[c1].fingerprint = certs[c2].fingerprint => c1 = c2)
  /\ [][\A p \in Procs :
          (/\ Chega(p, {"registrar"})
           /\ \E c \in CertIds : certs[c].fingerprint = proc'[p].arquivo)
            => /\ proc'[p].resp = "erro"
               /\ UNCHANGED <<certs, arquivos>>]_vars

C19_Witness ==
  \E p \in Procs :
    /\ proc[p].op = "registrar" /\ proc[p].resp = "erro"
    /\ proc[p].arquivo \notin vencidos
    /\ CertificadosVigentes(proc[p].usuario) = {}
    /\ \E c \in CertIds :
         certs[c].fingerprint = proc[p].arquivo /\ ~certs[c].ativo

\* C20: the one-valid-report rule is enforced only by the check at the start
\* of Create: the save that follows appends a valid report without looking
\* again, so two Creates for an exam that both ran the check before either
\* saved both succeed and leave two reports with valido = true for the exam.
C20_CorridaDeCriacao ==
  /\ [][\A p \in Procs :
          (proc[p].pc = "cr_save" /\ proc'[p].pc # "cr_save")
            => /\ Len(laudos') = Len(laudos) + 1
               /\ laudos'[Len(laudos')].valido
               /\ laudos'[Len(laudos')].exame = proc[p].exame
               /\ \A l \in LaudoIds : laudos'[l] = laudos[l]
               /\ proc'[p].pc = "cr_pdf"]_vars
  /\ [](\A p, q \in Procs :
          (/\ p # q
           /\ proc[p].pc = "cr_save" /\ proc[q].pc = "cr_save"
           /\ proc[p].exame = proc[q].exame)
            => LaudosValidos(proc[p].exame) = {})
  /\ [](\A p, q \in Procs :
          (/\ p # q
           /\ proc[p].op = "criar" /\ proc[p].resp = "201"
           /\ proc[q].op = "criar" /\ proc[q].resp = "201"
           /\ proc[p].exame = proc[q].exame
           /\ laudos[proc[p].lid].status # "Invalidado"
           /\ laudos[proc[q].lid].status # "Invalidado")
            => /\ proc[p].lid # proc[q].lid
               /\ {proc[p].lid, proc[q].lid} \subseteq LaudosValidos(proc[p].exame))

C20_Witness ==
  \E p, q \in Procs :
    /\ p # q
    /\ proc[p].op = "criar" /\ proc[p].resp = "201"
    /\ proc[q].op = "criar" /\ proc[q].resp = "201"
    /\ proc[p].exame = proc[q].exame
    /\ Cardinality(LaudosValidos(proc[p].exame)) = 2

\* Position of a step in render/sign -> persist -> delete original -> update
\* report -> update exam, for the Sign and Upload handlers.
Ordem(pc) ==
  IF pc = "pdf_sign" THEN 1
  ELSE IF pc \in {"pdf_s3", "pdf_uc", "up_s3", "up_uc"} THEN 2
  ELSE IF pc \in {"as_delete", "up_delete"} THEN 3
  ELSE IF pc \in {"as_save", "up_save"} THEN 4
  ELSE IF pc \in {"as_exame", "up_exame"} THEN 5
  ELSE 6

\* C21: within one Sign (automatic or manual) or Upload the steps run in the
\* order render and sign, persist the artifact, delete the original, update
\* the report: the original is never deleted, and the report never becomes
\* 'Laudo assinado', before the artifact of the operation is in a store.
C21_OrdemDosPassos ==
  [][\A p \in Procs :
       (proc[p].op \in OpsAssinatura /\ proc[p].pc \notin {"idle", "done"}
          /\ proc'[p].pc # proc[p].pc)
         => /\ Ordem(proc'[p].pc) >= Ordem(proc[p].pc)
            /\ (proc[p].originalKey \in s3 /\ proc[p].originalKey \notin s3')
                 => /\ Persistido(proc[p].res.fileUrl)
                    /\ laudos[proc[p].lid].status # "Laudo assinado"
            /\ (laudos[proc[p].lid].status # "Laudo assinado"
                  /\ laudos'[proc[p].lid].status = "Laudo assinado")
                 => /\ Persistido(proc[p].res.fileUrl)
                    /\ laudos'[proc[p].lid].arquivoPath = proc[p].res.fileUrl
                    /\ s3' = s3 /\ uploadcare' = uploadcare]_vars

C21_Witness ==
  \E p \in Procs :
    /\ proc[p].pc = "done" /\ proc[p].resp = "200"
    /\ proc[p].op = "assinar_auto" /\ proc[p].res.assinou = "ok"
    /\ proc[p].flag /\ proc[p].originalKey \notin s3
    /\ laudos[proc[p].lid].status = "Laudo assinado"
    /\ proc[p].res.s3Key \in s3

\* The five variants in their order: original, trimmed, lower-cased,
\* upper-cased, empty.
CincoVariantes(senha) ==
  <<senha, Trim(senha), ToLowerCase(senha), ToUpperCase(senha), <<>> >>

\* C22: the signing engine tries the stored password, trimmed, lower-cased,
\* upper-cased and empty, and fails only when all five fail: a signing
\* attempt with a loaded certificate succeeds exactly when one of the five
\* variants is the PKCS#12 password of the certificate's file.
C22_CincoVariantesDeSenha ==
  \A p \in Procs :
    (proc[p].op \in Assinaturas /\ proc[p].res.assinou \in {"ok", "falhou"})
      => LET c == certs[1]
             vs == CincoVariantes(c.senhaCertificado)
         IN (proc[p].res.assinou = "ok")
              <=> \E i \in 1..Len(vs) : vs[i] = SenhaP12(c.arquivo)

\* C23: every signing attempt updates the certificate's bookkeeping: a
\* success increments the usage counter, and an attempt in which no password
\* variant works records a failure against the certificate.
C23_TodaTentativaRegistrada ==
  [][\A p \in Procs :
       (proc[p].pc = "pdf_sign" /\ proc'[p].pc # "pdf_sign")
         => /\ proc'[p].res.assinou = "ok"
                 => \E c \in CertIds :
                      certs'[c].totalAssinaturas = certs[c].totalAssinaturas + 1
            /\ proc'[p].res.assinou = "falhou"
                 => \E c \in CertIds : certs'[c] # certs[c]]_vars

\* The report carries a signature made with a certificate: the method, the
\* certificate and an artifact whose bytes came out of signPdf.sign.
AssinaturaDeCertificado(doc) ==
  /\ doc.assinadoCom = "certificado_medico"
  /\ doc.certificadoId # 0
  /\ doc.arquivoPath # Nulo
  /\ doc.arquivoPath.conteudo = "assinado_certificado"
  /\ Persistido(doc.arquivoPath)

\* The physician's certificate, whose stored password opens its file, has
\* been deactivated by removerCertificado.
CertificadoRemovido(m) ==
  \E c \in CertIds :
    /\ certs[c].medicoId = m
    /\ ~certs[c].ativo
    /\ \E i \in 1..5 : CincoVariantes(certs[c].senhaCertificado)[i]
                         = SenhaP12(certs[c].arquivo)
                       /\ CincoVariantes(certs[c].senhaCertificado)[i] # <<>>

\* C24: when the physician's certificate is deactivated after a Sign request
\* passed its active-certificate check and before the certificate is fetched,
\* the Sign does not mark the report as signed: a report with
\* assinadoDigitalmente = true has assinadoCom = 'certificado_medico', a
\* certificadoId and a stored artifact made by a certificate signature.
C24_RemocaoDuranteAssinatura ==
  \A l \in LaudoIds :
    (laudos[l].assinadoDigitalmente
       /\ CertificadoRemovido(laudos[l].medicoResponsavelId))
      => AssinaturaDeCertificado(laudos[l])

\* C25: two concurrent Sign or Upload requests for the same pending report
\* cannot both complete: a signature is never recorded on a report that is
\* already 'Laudo assinado', and its history holds at most one 'Assinatura'
\* entry.
C25_UmaAssinaturaPorLaudo ==
  [][\A l \in LaudoIds :
       /\ NumAssinaturas(l)' <= 1
       /\ NumAssinaturas(l)' # NumAssinaturas(l)
            => laudos[l].status # "Laudo assinado"]_vars

\* C26: an Invalidate that interleaves with an in-flight Sign or Upload is
\* never overwritten: no report has valido = false together with status
\* 'Laudo assinado'.
C26_InvalidacaoNaoSobrescrita ==
  \A l \in LaudoIds : ~(~laudos[l].valido /\ laudos[l].status = "Laudo assinado")

\* C27: a Create that returns an error leaves no valid report behind: once
\* criarLaudo has answered 500, its exam has no report with valido = true, so
\* a retry is not rejected as a duplicate.
C27_CriarComErroNaoDeixaLaudo ==
  \A p \in Procs :
    (proc[p].op = "criar" /\ proc[p].pc = "done" /\ proc[p].resp = "500")
      => LaudosValidos(proc[p].exame) = {}

\* C28: an exam that has a valid report can be neither deleted nor updated,
\* whether or not the physician had an active certificate when the report was
\* created: while the exam's laudo link designates a report with
\* valido = true, no step removes the exam or changes its data.
C28_ExameComLaudoProtegido ==
  [][\A e \in Exames :
       exames[e].laudo \in LaudosValidos(e)
         => /\ exames'[e].excluido = exames[e].excluido
            /\ exames'[e].revisao = exames[e].revisao]_vars

\* C29: an exam's laudo link, when set, designates a report of that exam
\* with valido = true: Invalidate does not leave the exam pointing at the
\* report it invalidated.
C29_ExameApontaParaLaudoValido ==
  \A e \in Exames : exames[e].laudo # 0 => exames[e].laudo \in LaudosValidos(e)

\* C30: two interleaved registrarCertificado requests cannot both succeed for
\* the same physician or for the same certificate: a record is stored only
\* when the physician has no active, unexpired certificate and no stored
\* record has the certificate's fingerprint.
C30_CorridaDeRegistro ==
  [][Len(certs') > Len(certs)
       => LET novo == certs'[Len(certs')]
          IN /\ CertificadosVigentes(novo.medicoId) = {}
             /\ \A c \in CertIds : certs[c].fingerprint # novo.fingerprint]_vars

====
